---- MODULE Spec2Model ----
(***************************************************************************)
(* Session / token lifecycle of ewallet-ums: login, logout, refresh-token  *)
(* and token validation over the user_sessions table.                      *)
(*                                                                         *)
(* Every inbound call runs on its own goroutine (a worker).  A route with  *)
(* a middleware is two steps, the middleware and the handler, and other    *)
(* workers' steps may come between them; a handler is one step.            *)
(***************************************************************************)
EXTENDS Integers, FiniteSets, Sequences, TLC

VARIABLES
    now,        \* the wall clock, in units of the token timestamp resolution
    sessions,   \* the user_sessions table: a set of rows
    nextID,     \* the next auto-increment primary key of user_sessions
    origToken,  \* history: row id -> the access token Login issued for it
    pc,         \* per worker: where its request is
    ctx,        \* per worker: the request's locals (gin context, stack)
    response    \* the response emitted by the step just taken (or None)

vars == <<now, sessions, nextID, origToken, pc, ctx, response>>

----------------------------------------------------------------------------
(* Bounds *)

NumWorkers == 2     \* concurrent in-flight requests
MaxTime == 2        \* the clock runs 0..MaxTime
MaxSessions == 2    \* rows ever inserted into user_sessions

Workers == 1..NumWorkers
Times == 0..MaxTime

----------------------------------------------------------------------------
(* Accounts (users table).  Accounts are created by registration and are   *)
(* immutable for the session subsystem.                                     *)

Hash(pw) == <<"bcrypt", pw>>

Users ==
    { [ID |-> 1, Username |-> "alice", FullName |-> "Alice A",
       Email |-> "alice@x.com", Password |-> Hash("secret123")] }

NoUser == [ID |-> 0, Username |-> "", FullName |-> "", Email |-> "", Password |-> <<>>]

\* What a login request may carry: a registered and an unregistered
\* username, the right and a wrong password.
Usernames == {"alice", "mallory"}
Passwords == {"secret123", "letmein"}

\* bcrypt.CompareHashAndPassword: nil iff the candidate reproduces the hash
CompareHashAndPassword(hash, pw) == hash = Hash(pw)

\* UserRepository.GetUserByUsername: the row, or NoUser with an error
GetUserByUsername(username) ==
    IF \E u \in Users : u.Username = username
    THEN CHOOSE u \in Users : u.Username = username
    ELSE NoUser

UserByID(id) == CHOOSE u \in Users : u.ID = id

----------------------------------------------------------------------------
(* Token codec (helpers.GenerateToken / helpers.ValidateToken).            *)
(* A token is its payload (identity, issued-at, expires-at) and a          *)
(* signature computed with the process-wide key, so it is a function of    *)
(* the identity, the kind and the instant: issuing twice for the same      *)
(* account, kind and instant gives the same string.  Instants are counted  *)
(* in the resolution of the token's timestamps; the durations are in the   *)
(* same unit, the access one the shorter.                                  *)

SecretKey == "jwt-secret"
OtherKey == "not-the-secret"

AccessDuration == 1     \* MapTypeToken["token"]
RefreshDuration == 2    \* MapTypeToken["refresh_token"]

MapTypeToken(kind) == IF kind = "token" THEN AccessDuration ELSE RefreshDuration

NoClaim == [UserID |-> 0, Username |-> "", FullName |-> "", Email |-> "",
            IssuedAt |-> 0, ExpiresAt |-> 0]

\* A token string: the empty string, a string that is no token, or
\* header.payload.signature with the key that computed the signature.
EmptyToken == [form |-> "empty", payload |-> NoClaim, sig |-> ""]
MalformedToken == [form |-> "malformed", payload |-> NoClaim, sig |-> ""]

Sign(claim, key) == [form |-> "jwt", payload |-> claim, sig |-> key]

\* Mutant: every token gets the access window, whatever its kind
GenerateToken_IgnoresKind(userID, username, fullname, kind, email, at) ==
    Sign([UserID |-> userID, Username |-> username, FullName |-> fullname,
          Email |-> email, IssuedAt |-> at,
          ExpiresAt |-> at + AccessDuration], SecretKey)

\* helpers.GenerateToken(ctx, userID, username, fullname, tokenType, email, now)
GenerateToken(userID, username, fullname, kind, email, at) ==
    Sign([UserID |-> userID, Username |-> username, FullName |-> fullname,
          Email |-> email, IssuedAt |-> at,
          ExpiresAt |-> at + MapTypeToken(kind)], SecretKey)

\* helpers.ValidateToken: the claim, or an error kind.  Expiry is carried
\* as data and is not checked here.
DecodeErr(token) ==
    IF token.form # "jwt" THEN "Malformed"
    ELSE IF token.sig # SecretKey THEN "InvalidSignature"
    ELSE "none"

DecodeClaim(token) == IF DecodeErr(token) = "none" THEN token.payload ELSE NoClaim

IssueFor(u, kind, at) ==
    GenerateToken(u.ID, u.Username, u.FullName, kind, u.Email, at)

\* The strings a client may present: every token the service can have
\* issued up to an instant, the empty string, garbage, and a forged token.
ForgedToken == Sign(IssueFor(UserByID(1), "token", 0).payload, OtherKey)

IssuableTokens(upTo) ==
    { IssueFor(u, k, t) : u \in Users, k \in {"token", "refresh_token"}, t \in 0..upTo }

TokenInputs(upTo) == IssuableTokens(upTo) \cup {EmptyToken, MalformedToken, ForgedToken}

----------------------------------------------------------------------------
(* Store (UserRepository over user_sessions)                               *)

\* UserRepository.GetUserSessionByToken: rows matching the access token
RowsByToken(S, token) == { r \in S : r.Token = token }
RowsByRefreshToken(S, token) == { r \in S : r.RefreshToken = token }

GetUserSessionByTokenFound(S, token) == RowsByToken(S, token) # {}

\* ... First(&session): of the matching rows, the one with the lowest ID
GetUserSessionByToken(S, token) ==
    CHOOSE r \in RowsByToken(S, token) : \A q \in RowsByToken(S, token) : r.ID <= q.ID

\* Mutant: the insert writes the two token columns the wrong way round
InsertNewUserSession_SwapsTokens(S, id, session) ==
    S \cup { [ID |-> id, UserID |-> session.UserID, Token |-> session.RefreshToken,
              RefreshToken |-> session.Token,
              TokenExpired |-> session.TokenExpired,
              RefreshTokenExpired |-> session.RefreshTokenExpired] }

\* UserRepository.InsertNewUserSession
InsertNewUserSession(S, id, session) ==
    S \cup { [ID |-> id, UserID |-> session.UserID, Token |-> session.Token,
              RefreshToken |-> session.RefreshToken,
              TokenExpired |-> session.TokenExpired,
              RefreshTokenExpired |-> session.RefreshTokenExpired] }

\* UserRepository.DeleteUserSession: DELETE FROM user_sessions WHERE token = ?
DeleteUserSession(S, token) == { r \in S : r.Token # token }

\* UserRepository.UpdateTokenByRefreshToken: replaces the access-token
\* field of the rows whose refresh_token equals the presented value
UpdateTokenByRefreshToken(S, token, refreshToken) ==
    { IF r.RefreshToken = refreshToken THEN [r EXCEPT !.Token = token] ELSE r : r \in S }

\* ... and reports SessionNotFound when no row matches
UpdateTokenByRefreshTokenErr(S, refreshToken) ==
    IF RowsByRefreshToken(S, refreshToken) = {} THEN "SessionNotFound" ELSE "none"

----------------------------------------------------------------------------
(* Requests *)

\* What a request carries from its middleware to its handler: the
\* credential, the claim set on the context, and (sessionID) which row the
\* gate's GetUserSessionByToken returned; the code drops that row, it is
\* kept to say which session the request was authenticated against.
NoCtx == [auth |-> EmptyToken, claim |-> NoClaim, sessionID |-> 0]

None == [op |-> "none", worker |-> 0, status |-> 0, err |-> "none",
         username |-> "", password |-> "", auth |-> EmptyToken,
         userID |-> 0, token |-> EmptyToken, refreshToken |-> EmptyToken,
         claim |-> NoClaim, storeErr |-> FALSE]

Init ==
    /\ now = 0
    /\ sessions = {}
    /\ nextID = 1
    /\ origToken = <<>>
    /\ pc = [w \in Workers |-> "idle"]
    /\ ctx = [w \in Workers |-> NoCtx]
    /\ response = None

\* time passes
Tick ==
    /\ now < MaxTime
    /\ now' = now + 1
    /\ response' = None
    /\ UNCHANGED <<sessions, nextID, origToken, pc, ctx>>

Reply(w, r) ==
    /\ response' = r
    /\ pc' = [pc EXCEPT ![w] = "idle"]
    /\ ctx' = [ctx EXCEPT ![w] = NoCtx]

Goto(w, label, locals) ==
    /\ response' = None
    /\ pc' = [pc EXCEPT ![w] = label]
    /\ ctx' = [ctx EXCEPT ![w] = locals]

----------------------------------------------------------------------------
(* POST /user/v1/login: LoginHandler.Login -> LoginService.Login           *)

\* The session row Login builds from the two tokens and the instant
NewUserSession(userDetail, token, refreshToken, at) ==
    [UserID |-> userDetail.ID, Token |-> token, RefreshToken |-> refreshToken,
     TokenExpired |-> at + MapTypeToken("token"),
     RefreshTokenExpired |-> at + MapTypeToken("refresh_token")]

\* Mutant: Login compares the password before it checks the lookup's error
Login_PasswordFirst(w, username, password, tokenErr, storeErr) ==
    LET userDetail == GetUserByUsername(username)
        token == GenerateToken(userDetail.ID, userDetail.Username,
                     userDetail.FullName, "token", userDetail.Email, now)
        refreshToken == GenerateToken(userDetail.ID, userDetail.Username,
                     userDetail.FullName, "refresh_token", userDetail.Email, now)
        req == [None EXCEPT !.op = "login", !.worker = w, !.storeErr = storeErr,
                            !.username = username, !.password = password]
    IN
    /\ pc[w] = "idle"
    /\ UNCHANGED <<now, pc, ctx>>
    /\ IF ~CompareHashAndPassword(userDetail.Password, password)
       THEN /\ response' = [req EXCEPT !.status = 500, !.err = "InvalidCredentials"]
            /\ UNCHANGED <<sessions, nextID, origToken>>
       ELSE IF userDetail = NoUser
       THEN /\ response' = [req EXCEPT !.status = 500, !.err = "AccountNotFound"]
            /\ UNCHANGED <<sessions, nextID, origToken>>
       ELSE IF tokenErr
       THEN /\ response' = [req EXCEPT !.status = 500, !.err = "TokenIssueFailure"]
            /\ UNCHANGED <<sessions, nextID, origToken>>
       ELSE IF storeErr
       THEN /\ response' = [req EXCEPT !.status = 500, !.err = "SessionPersistFailure"]
            /\ UNCHANGED <<sessions, nextID, origToken>>
       ELSE /\ nextID <= MaxSessions
            /\ sessions' = InsertNewUserSession(sessions, nextID,
                               NewUserSession(userDetail, token, refreshToken, now))
            /\ nextID' = nextID + 1
            /\ origToken' = origToken @@ (nextID :> token)
            /\ response' = [req EXCEPT !.status = 200, !.userID = userDetail.ID,
                                       !.token = token, !.refreshToken = refreshToken]

\* Mutant: the row is written although the insert is reported as failed
Login_KeepsRowOnStoreErr(w, username, password, tokenErr, storeErr) ==
    LET userDetail == GetUserByUsername(username)
        token == GenerateToken(userDetail.ID, userDetail.Username,
                     userDetail.FullName, "token", userDetail.Email, now)
        refreshToken == GenerateToken(userDetail.ID, userDetail.Username,
                     userDetail.FullName, "refresh_token", userDetail.Email, now)
        req == [None EXCEPT !.op = "login", !.worker = w, !.storeErr = storeErr,
                            !.username = username, !.password = password]
    IN
    /\ pc[w] = "idle"
    /\ UNCHANGED <<now, pc, ctx>>
    /\ IF userDetail = NoUser
       THEN /\ response' = [req EXCEPT !.status = 500, !.err = "AccountNotFound"]
            /\ UNCHANGED <<sessions, nextID, origToken>>
       ELSE IF ~CompareHashAndPassword(userDetail.Password, password)
       THEN /\ response' = [req EXCEPT !.status = 500, !.err = "InvalidCredentials"]
            /\ UNCHANGED <<sessions, nextID, origToken>>
       ELSE IF tokenErr
       THEN /\ response' = [req EXCEPT !.status = 500, !.err = "TokenIssueFailure"]
            /\ UNCHANGED <<sessions, nextID, origToken>>
       ELSE /\ nextID <= MaxSessions
            /\ sessions' = InsertNewUserSession(sessions, nextID,
                               NewUserSession(userDetail, token, refreshToken, now))
            /\ nextID' = nextID + 1
            /\ origToken' = origToken @@ (nextID :> token)
            /\ response' = IF storeErr
                           THEN [req EXCEPT !.status = 500,
                                            !.err = "SessionPersistFailure"]
                           ELSE [req EXCEPT !.status = 200, !.userID = userDetail.ID,
                                            !.token = token,
                                            !.refreshToken = refreshToken]

\* LoginHandler.Login -> LoginService.Login.  storeErr: the store rejects
\* the insert (the one store failure with an error kind of its own,
\* SessionPersistFailure).  tokenErr: helpers.GenerateToken returns an
\* error for either token.
Login(w, username, password, tokenErr, storeErr) ==
    LET userDetail == GetUserByUsername(username)
        token == GenerateToken(userDetail.ID, userDetail.Username,
                     userDetail.FullName, "token", userDetail.Email, now)
        refreshToken == GenerateToken(userDetail.ID, userDetail.Username,
                     userDetail.FullName, "refresh_token", userDetail.Email, now)
        req == [None EXCEPT !.op = "login", !.worker = w, !.storeErr = storeErr,
                            !.username = username, !.password = password]
    IN
    /\ pc[w] = "idle"
    /\ UNCHANGED <<now, pc, ctx>>
    /\ IF userDetail = NoUser
       THEN /\ response' = [req EXCEPT !.status = 500, !.err = "AccountNotFound"]
            /\ UNCHANGED <<sessions, nextID, origToken>>
       ELSE IF ~CompareHashAndPassword(userDetail.Password, password)
       THEN /\ response' = [req EXCEPT !.status = 500, !.err = "InvalidCredentials"]
            /\ UNCHANGED <<sessions, nextID, origToken>>
       ELSE IF tokenErr
       THEN /\ response' = [req EXCEPT !.status = 500, !.err = "TokenIssueFailure"]
            /\ UNCHANGED <<sessions, nextID, origToken>>
       ELSE IF storeErr
       THEN /\ response' = [req EXCEPT !.status = 500, !.err = "SessionPersistFailure"]
            /\ UNCHANGED <<sessions, nextID, origToken>>
       ELSE /\ nextID <= MaxSessions
            /\ sessions' = InsertNewUserSession(sessions, nextID,
                               NewUserSession(userDetail, token, refreshToken, now))
            /\ nextID' = nextID + 1
            /\ origToken' = origToken @@ (nextID :> token)
            /\ response' = [req EXCEPT !.status = 200, !.userID = userDetail.ID,
                                       !.token = token, !.refreshToken = refreshToken]

----------------------------------------------------------------------------
(* DELETE /user/v1/logout: MiddlewareValidateAuth, then LogoutHandler      *)

\* Mutant: the gate does not compare expiresAt with the clock
ValidateAuthErr_NoExpiry(S, auth, at) ==
    IF auth = EmptyToken THEN "EmptyToken"
    ELSE IF ~GetUserSessionByTokenFound(S, auth) THEN "SessionNotFound"
    ELSE IF DecodeErr(auth) # "none" THEN DecodeErr(auth)
    ELSE "none"

\* Why the gate refuses, or "none"
ValidateAuthErr(S, auth, at) ==
    IF auth = EmptyToken THEN "EmptyToken"
    ELSE IF ~GetUserSessionByTokenFound(S, auth) THEN "SessionNotFound"
    ELSE IF DecodeErr(auth) # "none" THEN DecodeErr(auth)
    ELSE IF at > DecodeClaim(auth).ExpiresAt THEN "Expired"
    ELSE "none"

MiddlewareValidateAuth(w, auth) ==
    LET err == ValidateAuthErr(sessions, auth, now) IN
    /\ pc[w] = "idle"
    /\ UNCHANGED <<now, sessions, nextID, origToken>>
    /\ IF err # "none"
       THEN Reply(w, [None EXCEPT !.op = "logout", !.worker = w, !.auth = auth,
                                  !.status = 401, !.err = err])
       ELSE Goto(w, "logout_handler",
                 [NoCtx EXCEPT !.auth = auth, !.claim = DecodeClaim(auth),
                               !.sessionID = GetUserSessionByToken(sessions, auth).ID])

\* LogoutHandler.Logout -> LogoutService.Logout -> DeleteUserSession
Logout(w) ==
    /\ pc[w] = "logout_handler"
    /\ sessions' = DeleteUserSession(sessions, ctx[w].auth)
    /\ UNCHANGED <<now, nextID, origToken>>
    /\ Reply(w, [None EXCEPT !.op = "logout", !.worker = w, !.auth = ctx[w].auth,
                             !.status = 200])

----------------------------------------------------------------------------
(* PUT /user/v1/refresh-token: MiddlewareRefreshToken, then                *)
(* RefreshTokenHandler.RefreshToken -> RefreshTokenService.RefreshToken    *)
(* The middleware decodes the presented refresh token into the claim and   *)
(* enforces its expiry; whether a session row has it is found out by the   *)
(* update.                                                                  *)

RefreshAuthErr(auth, at) ==
    IF auth = EmptyToken THEN "EmptyToken"
    ELSE IF DecodeErr(auth) # "none" THEN DecodeErr(auth)
    ELSE IF at > DecodeClaim(auth).ExpiresAt THEN "Expired"
    ELSE "none"

MiddlewareRefreshToken(w, auth) ==
    LET err == RefreshAuthErr(auth, now) IN
    /\ pc[w] = "idle"
    /\ UNCHANGED <<now, sessions, nextID, origToken>>
    /\ IF err # "none"
       THEN Reply(w, [None EXCEPT !.op = "refresh", !.worker = w, !.auth = auth,
                                  !.status = 401, !.err = err])
       ELSE Goto(w, "refresh_handler",
                 [NoCtx EXCEPT !.auth = auth, !.claim = DecodeClaim(auth)])

\* The token RefreshToken issues from the claim at the instant `at`
RefreshedToken(tokenClaim, at) ==
    GenerateToken(tokenClaim.UserID, tokenClaim.Username, tokenClaim.FullName,
                  "refresh_token", tokenClaim.Email, at)

\* Mutant: the response carries the presented refresh token, not the new token
RefreshToken_ReturnsPresented(w) ==
    LET refreshToken == ctx[w].auth
        tokenClaim == ctx[w].claim
        token == RefreshedToken(tokenClaim, now)
        req == [None EXCEPT !.op = "refresh", !.worker = w, !.auth = refreshToken,
                            !.claim = tokenClaim]
    IN
    /\ pc[w] = "refresh_handler"
    /\ UNCHANGED <<now, nextID, origToken>>
    /\ IF UpdateTokenByRefreshTokenErr(sessions, refreshToken) # "none"
       THEN /\ UNCHANGED sessions
            /\ Reply(w, [req EXCEPT !.status = 500, !.err = "SessionNotFound"])
       ELSE /\ sessions' = UpdateTokenByRefreshToken(sessions, token, refreshToken)
            /\ Reply(w, [req EXCEPT !.status = 200, !.token = refreshToken])

\* Mutant: the update's error is dropped and the new token returned anyway
RefreshToken_IgnoresUpdateErr(w) ==
    LET refreshToken == ctx[w].auth
        tokenClaim == ctx[w].claim
        token == RefreshedToken(tokenClaim, now)
        req == [None EXCEPT !.op = "refresh", !.worker = w, !.auth = refreshToken,
                            !.claim = tokenClaim]
    IN
    /\ pc[w] = "refresh_handler"
    /\ UNCHANGED <<now, nextID, origToken>>
    /\ sessions' = UpdateTokenByRefreshToken(sessions, token, refreshToken)
    /\ Reply(w, [req EXCEPT !.status = 200, !.token = token])

\* RefreshTokenHandler.RefreshToken -> RefreshTokenService.RefreshToken
RefreshToken(w) ==
    LET refreshToken == ctx[w].auth
        tokenClaim == ctx[w].claim
        token == RefreshedToken(tokenClaim, now)
        req == [None EXCEPT !.op = "refresh", !.worker = w, !.auth = refreshToken,
                            !.claim = tokenClaim]
    IN
    /\ pc[w] = "refresh_handler"
    /\ UNCHANGED <<now, nextID, origToken>>
    /\ IF UpdateTokenByRefreshTokenErr(sessions, refreshToken) # "none"
       THEN /\ UNCHANGED sessions
            /\ Reply(w, [req EXCEPT !.status = 500, !.err = "SessionNotFound"])
       ELSE /\ sessions' = UpdateTokenByRefreshToken(sessions, token, refreshToken)
            /\ Reply(w, [req EXCEPT !.status = 200, !.token = token])

----------------------------------------------------------------------------
(* gRPC TokenValidation/ValidateToken:                                      *)
(* TokenValidationHandler.ValidateToken -> TokenValidationService           *)

\* Mutant: the session lookup runs before the decode
TokenValidationErr_LookupFirst(S, token) ==
    IF ~GetUserSessionByTokenFound(S, token) THEN "SessionNotFound"
    ELSE IF DecodeErr(token) # "none" THEN DecodeErr(token)
    ELSE "none"

\* TokenValidationService.TokenValidation: decode, then session lookup
TokenValidationErr(S, token) ==
    IF DecodeErr(token) # "none" THEN DecodeErr(token)
    ELSE IF ~GetUserSessionByTokenFound(S, token) THEN "SessionNotFound"
    ELSE "none"

\* The handler's outcome: the error kind, or "none"
ValidateTokenErr(S, token) ==
    IF token = EmptyToken THEN "EmptyToken" ELSE TokenValidationErr(S, token)

\* Mutant: the response takes the username from the claim's full name
ValidateTokenClaim_SwapsNames(S, token) ==
    IF ValidateTokenErr(S, token) = "none"
    THEN [DecodeClaim(token) EXCEPT !.Username = DecodeClaim(token).FullName,
                                    !.FullName = DecodeClaim(token).Username]
    ELSE NoClaim

\* The claim the handler answers with (UserId, Username, FullName)
ValidateTokenClaim(S, token) ==
    IF ValidateTokenErr(S, token) = "none" THEN DecodeClaim(token) ELSE NoClaim

ValidateToken(token) ==
    /\ response' = [None EXCEPT !.op = "validate", !.auth = token,
                                !.err = ValidateTokenErr(sessions, token),
                                !.claim = ValidateTokenClaim(sessions, token)]
    /\ UNCHANGED <<now, sessions, nextID, origToken, pc, ctx>>

----------------------------------------------------------------------------

Next ==
    \/ Tick
    \/ \E w \in Workers, username \in Usernames, password \in Passwords,
          tokenErr \in BOOLEAN, storeErr \in BOOLEAN : Login(w, username, password, tokenErr, storeErr)
    \/ \E w \in Workers, auth \in TokenInputs(now) : MiddlewareValidateAuth(w, auth)
    \/ \E w \in Workers : Logout(w)
    \/ \E w \in Workers, auth \in TokenInputs(now) : MiddlewareRefreshToken(w, auth)
    \/ \E w \in Workers : RefreshToken(w)
    \/ \E token \in TokenInputs(now) : ValidateToken(token)

Spec == Init /\ [][Next]_vars

\* Time passes while the last response stays in view: the specification
\* under which what two overlapping calls answered can be compared.
Elapse ==
    /\ now < MaxTime
    /\ now' = now + 1
    /\ UNCHANGED <<sessions, nextID, origToken, pc, ctx, response>>

NextRace ==
    \/ Elapse
    \/ \E w \in Workers, username \in Usernames, password \in Passwords,
          tokenErr \in BOOLEAN, storeErr \in BOOLEAN : Login(w, username, password, tokenErr, storeErr)
    \/ \E w \in Workers, auth \in TokenInputs(now) : MiddlewareValidateAuth(w, auth)
    \/ \E w \in Workers : Logout(w)
    \/ \E w \in Workers, auth \in TokenInputs(now) : MiddlewareRefreshToken(w, auth)
    \/ \E w \in Workers : RefreshToken(w)
    \/ \E token \in TokenInputs(now) : ValidateToken(token)

SpecRace == Init /\ [][NextRace]_vars

TypeOK ==
    /\ now \in Times
    /\ nextID \in 1..(MaxSessions + 1)
    /\ \A r \in sessions : r.ID \in 1..MaxSessions
    /\ \A w \in Workers : pc[w] \in {"idle", "logout_handler", "refresh_handler"}

----------------------------------------------------------------------------
(* Properties *)

\* The step worker w takes from label `from` back to idle (its handler)
HandlerStep(w, from) == pc[w] = from /\ pc'[w] = "idle"

\* Mutant: the message names the service's error kind
LoginMessage_LeaksKind(err) ==
    IF err = "none" THEN "SuccessMessage" ELSE err

\* LoginHandler.Login: the message sent for the service's outcome
LoginMessage(err) ==
    IF err = "none" THEN "SuccessMessage" ELSE "ErrServerError"

\* What the client of POST login receives for a response r of Login:
\* status, message and data (nil on failure)
LoginClientView(r) ==
    [status  |-> r.status,
     message |-> LoginMessage(r.err),
     data    |-> IF r.err = "none"
                 THEN <<r.userID, r.token, r.refreshToken>>
                 ELSE <<>>]

ValidCredentials(username, password) ==
    /\ GetUserByUsername(username) # NoUser
    /\ CompareHashAndPassword(GetUserByUsername(username).Password, password)

\* C1: a Login with the username of a stored account and its password,
\* whose tokens are issued and whose insert the store accepts, answers 200
\* with a non-empty access
\* token and a non-empty refresh token, and right after it user_sessions
\* holds a row of that account with exactly these two tokens.
C1_LoginIssuesSession ==
    ( /\ response.op = "login"
      /\ ValidCredentials(response.username, response.password)
      /\ response.err # "TokenIssueFailure"
      /\ ~response.storeErr )
    => /\ response.status = 200
       /\ response.err = "none"
       /\ response.token # EmptyToken
       /\ response.refreshToken # EmptyToken
       /\ \E r \in sessions :
            /\ r.UserID = GetUserByUsername(response.username).ID
            /\ r.Token = response.token
            /\ r.RefreshToken = response.refreshToken

C1_Witness ==
    /\ response.op = "login"
    /\ response.status = 200
    /\ ValidCredentials(response.username, response.password)
    /\ \E r \in sessions : r.Token = response.token

\* C2: once Logout(T) has completed, ValidateToken(T) fails with
\* SessionNotFound whatever step comes next (stated for the state that
\* follows the step taken right after the logout's response).
C2_ValidateAfterLogoutFails ==
    [][ (response.op = "logout" /\ response.status = 200)
        => ValidateTokenErr(sessions', response.auth) = "SessionNotFound" ]_vars

\* C3: a RefreshToken whose refresh token matches a session row answers
\* 200 with a token different from the access token Login issued for that
\* row; afterwards the row holds the returned token in its access-token
\* column, and the rows matching the refresh token have the identifiers
\* they had before.
C3_RefreshRotatesAccessToken ==
    [][ \A w \in Workers :
          ( /\ HandlerStep(w, "refresh_handler")
            /\ RowsByRefreshToken(sessions, ctx[w].auth) # {} )
          => /\ response'.op = "refresh"
             /\ response'.status = 200
             /\ response'.token # EmptyToken
             /\ { r.ID : r \in RowsByRefreshToken(sessions', ctx[w].auth) }
                  = { r.ID : r \in RowsByRefreshToken(sessions, ctx[w].auth) }
             /\ \A r \in RowsByRefreshToken(sessions', ctx[w].auth) :
                  /\ r.Token = response'.token
                  /\ response'.token # origToken[r.ID] ]_vars

C3_Witness ==
    /\ response.op = "refresh"
    /\ response.status = 200
    /\ \E r \in sessions : r.RefreshToken = response.auth /\ r.Token = response.token

\* C4: after a successful refresh of a session whose access token was T1,
\* producing T3, ValidateToken(T3) succeeds and ValidateToken(T1) fails
\* with SessionNotFound.
C4_OldTokenDiesOnRefresh ==
    [][ \A w \in Workers :
          ( /\ HandlerStep(w, "refresh_handler")
            /\ response'.status = 200 )
          => /\ ValidateTokenErr(sessions', response'.token) = "none"
             /\ \A r \in RowsByRefreshToken(sessions, ctx[w].auth) :
                  ValidateTokenErr(sessions', r.Token) = "SessionNotFound" ]_vars

\* C5: no two rows of user_sessions share an access-token value, and no
\* two share a refresh-token value.
C5_TokensIdentifyOneRow ==
    \A r1, r2 \in sessions :
        r1.ID # r2.ID => /\ r1.Token # r2.Token
                         /\ r1.RefreshToken # r2.RefreshToken

\* C6: a RefreshToken whose refresh token matches no session row fails
\* with SessionNotFound (answered as a server error), returns no access
\* token, and leaves user_sessions as it was.
C6_RefreshUnknownTokenFails ==
    [][ \A w \in Workers :
          ( /\ HandlerStep(w, "refresh_handler")
            /\ RowsByRefreshToken(sessions, ctx[w].auth) = {} )
          => /\ response'.op = "refresh"
             /\ response'.err = "SessionNotFound"
             /\ response'.status = 500
             /\ response'.token = EmptyToken
             /\ sessions' = sessions ]_vars

C6_Witness ==
    /\ response.op = "refresh"
    /\ response.err = "SessionNotFound"
    /\ RowsByRefreshToken(sessions, response.auth) = {}

\* C7: the logout handler is reached only from a gate run in which the
\* bearer credential was non-empty, a session row had it as access token,
\* it decoded, and its expiresAt was not in the past; a gate run that
\* does not reach the handler answers 401 and leaves user_sessions as it
\* was; and only a worker past the gate deletes.
C7_GateGuardsLogout ==
    [][ \A w \in Workers :
          /\ (pc[w] = "idle" /\ pc'[w] = "logout_handler")
             => /\ ctx'[w].auth # EmptyToken
                /\ \E r \in sessions : r.Token = ctx'[w].auth
                /\ DecodeErr(ctx'[w].auth) = "none"
                /\ now <= DecodeClaim(ctx'[w].auth).ExpiresAt
          /\ (pc[w] = "idle" /\ response'.op = "logout" /\ response'.worker = w)
             => /\ response'.status = 401
                /\ pc'[w] = "idle"
                /\ sessions' = sessions
          /\ (response'.op = "logout" /\ response'.worker = w /\ response'.status = 200)
             => pc[w] = "logout_handler" ]_vars

C7_Witness ==
    \E w \in Workers :
        /\ pc[w] = "logout_handler"
        /\ now <= ctx[w].claim.ExpiresAt
        /\ \E r \in sessions : r.Token = ctx[w].auth

\* C8: Login with an unregistered username fails with AccountNotFound,
\* whatever the password; Login with a registered username and a password
\* that does not reproduce the stored hash fails with InvalidCredentials.
C8_LoginFailureKinds ==
    response.op = "login"
    => /\ GetUserByUsername(response.username) = NoUser
          => response.err = "AccountNotFound"
       /\ ( /\ GetUserByUsername(response.username) # NoUser
            /\ ~CompareHashAndPassword(GetUserByUsername(response.username).Password,
                                       response.password) )
          => response.err = "InvalidCredentials"
       /\ response.err \in {"AccountNotFound", "InvalidCredentials"}
          => response.status # 200 /\ response.token = EmptyToken

C8_Witness ==
    /\ response.op = "login"
    /\ response.err = "InvalidCredentials"
    /\ response.username = "alice"
    /\ sessions # {}

\* C9: Logout(T) answers success; with no row matching T it leaves
\* user_sessions as it was; with a row matching T it removes that row and
\* no other; a second Logout(T) leaves the store of the first.
C9_LogoutRemovesOneRow ==
    [][ \A w \in Workers :
          HandlerStep(w, "logout_handler")
          => /\ response'.status = 200
             /\ sessions' \subseteq sessions
             /\ RowsByToken(sessions, ctx[w].auth) = {} => sessions' = sessions
             /\ RowsByToken(sessions, ctx[w].auth) # {}
                  => /\ Cardinality(sessions \ sessions') = 1
                     /\ \A r \in sessions \ sessions' : r.Token = ctx[w].auth
             /\ DeleteUserSession(sessions', ctx[w].auth) = sessions' ]_vars

\* C10: ValidateToken with the access token Login issued for a session
\* row that still holds it succeeds, and the claim it returns carries the
\* id, username and full name of the account that owns the row.
C10_ValidateAfterLogin ==
    ( /\ response.op = "validate"
      /\ \E r \in sessions : r.Token = response.auth /\ origToken[r.ID] = response.auth )
    => /\ response.err = "none"
       /\ \A r \in sessions :
            (r.Token = response.auth /\ origToken[r.ID] = response.auth)
            => /\ response.claim.UserID = r.UserID
               /\ response.claim.Username = UserByID(r.UserID).Username
               /\ response.claim.FullName = UserByID(r.UserID).FullName

C10_Witness ==
    /\ response.op = "validate"
    /\ response.err = "none"
    /\ response.claim.Username = "alice"
    /\ \E r \in sessions : r.Token = response.auth /\ origToken[r.ID] = response.auth

\* C11: two RefreshToken calls with the same refresh token that overlap
\* (both past the gate before either updates): when the second has
\* answered, the matching row holds the token one of the two returned, and
\* a token one of them returned that the row does not hold fails
\* ValidateToken with SessionNotFound.
C11_ConcurrentRefreshOneWins ==
    [][ \A w \in Workers :
          ( /\ HandlerStep(w, "refresh_handler")
            /\ response.op = "refresh"
            /\ response.status = 200
            /\ response.worker # w
            /\ response.auth = ctx[w].auth
            /\ response'.status = 200 )
          => LET rows == RowsByRefreshToken(sessions', ctx[w].auth)
                 returned == {response.token, response'.token}
             IN /\ rows # {}
                /\ \A r \in rows : r.Token \in returned
                /\ \A r1, r2 \in rows : r1.Token = r2.Token
                /\ \A t \in returned :
                     (\A r \in rows : r.Token # t)
                     => ValidateTokenErr(sessions', t) = "SessionNotFound" ]_vars

\* C12: ValidateToken checks in the order empty input (EmptyToken), decode
\* (Malformed / InvalidSignature), session existence (SessionNotFound), and
\* checks no expiry: a correctly signed token whose row exists is accepted
\* with its claim also when its ExpiresAt is in the past.
C12_ValidateCheckOrder ==
    response.op = "validate" =>
        LET token == response.auth IN
        /\ token = EmptyToken => response.err = "EmptyToken"
        /\ (token # EmptyToken /\ DecodeErr(token) # "none")
               => response.err = DecodeErr(token)
        /\ (token # EmptyToken /\ DecodeErr(token) = "none"
               /\ RowsByToken(sessions, token) = {})
               => response.err = "SessionNotFound"
        /\ (token # EmptyToken /\ DecodeErr(token) = "none"
               /\ RowsByToken(sessions, token) # {})
               => /\ response.err = "none"
                  /\ response.claim = DecodeClaim(token)
        /\ response.err \in {"EmptyToken", "Malformed", "InvalidSignature",
                             "SessionNotFound", "none"}

\* An expired token (ExpiresAt in the past) was accepted by ValidateToken.
C12_Witness ==
    /\ response.op = "validate"
    /\ response.err = "none"
    /\ response.claim = DecodeClaim(response.auth)
    /\ now > DecodeClaim(response.auth).ExpiresAt

\* C13: a Login that fails (unknown username, wrong password, token
\* issuance failure, insert failure reported as SessionPersistFailure)
\* leaves user_sessions as it was and returns no tokens; a Login that
\* succeeds inserts one row, once.
C13_FailedLoginLeavesStore ==
    [][ (response'.op = "login" /\ now' = now)
        => /\ ( \/ GetUserByUsername(response'.username) = NoUser
                \/ ~ValidCredentials(response'.username, response'.password)
                \/ response'.storeErr
                \/ response'.err = "TokenIssueFailure" )
              => response'.status # 200
           /\ response'.status # 200
              => /\ response'.err \in {"AccountNotFound", "InvalidCredentials",
                                      "TokenIssueFailure", "SessionPersistFailure"}
                 /\ sessions' = sessions
                 /\ nextID' = nextID
                 /\ response'.token = EmptyToken
                 /\ response'.refreshToken = EmptyToken
                 /\ response'.userID = 0
           /\ response'.status = 200
              => /\ sessions \subseteq sessions'
                 /\ Cardinality(sessions' \ sessions) = 1
                 /\ nextID' = nextID + 1 ]_vars

\* A Login failed at the insert while the store held a row.
C13_Witness ==
    /\ response.op = "login"
    /\ response.err = "SessionPersistFailure"
    /\ response.status = 500
    /\ response.token = EmptyToken
    /\ sessions # {}

\* C14: a Login that fails on the account lookup and a Login that fails on
\* the password give the client the same status, message and data: of two
\* consecutive login requests where one fails on the one check and the other
\* on the other, the client sees identical responses.
C14_LoginFailuresLookAlike ==
    [][ ( /\ response.op = "login"
          /\ response'.op = "login"
          /\ {response.err, response'.err}
               = {"AccountNotFound", "InvalidCredentials"} )
        => /\ LoginClientView(response) = LoginClientView(response')
           /\ LoginClientView(response').status = 500 ]_vars

\* A Login failed on the account lookup and the client got the server error.
C14_Witness ==
    /\ response.op = "login"
    /\ response.err = "AccountNotFound"
    /\ response.username = "mallory"
    /\ LoginClientView(response) =
         [status |-> 500, message |-> "ErrServerError", data |-> <<>>]

C16_RefreshIssuesAccessToken ==
    (response.op = "refresh" /\ response.status = 200)
    => /\ \A r \in RowsByRefreshToken(sessions, response.auth) :
             r.Token = response.token
       /\ DecodeClaim(response.token).IssuedAt = now
       /\ DecodeClaim(response.token).ExpiresAt = now + AccessDuration

\* C17: in every reachable state each row's TokenExpired equals the
\* ExpiresAt carried in the row's Token.
C17_StoredExpiryMatchesToken ==
    \A r \in sessions : r.TokenExpired = DecodeClaim(r.Token).ExpiresAt

\* C18: a successful RefreshToken changes one row, the one whose
\* RefreshToken is the presented value, and only its Token: the row's
\* RefreshToken, UserID and ID stay, no row is added or removed, every
\* other row is unchanged; updates by two different refresh tokens give the
\* same store in either order.
C18_RefreshChangesOneRow ==
    [][ \A w \in Workers :
          (HandlerStep(w, "refresh_handler") /\ response'.status = 200)
          => LET matched == RowsByRefreshToken(sessions, ctx[w].auth) IN
             /\ Cardinality(matched) = 1
             /\ {r.ID : r \in sessions'} = {r.ID : r \in sessions}
             /\ Cardinality(sessions') = Cardinality(sessions)
             /\ \A r \in sessions \ matched : r \in sessions'
             /\ \A r \in matched :
                  [r EXCEPT !.Token = response'.token] \in sessions'
             /\ \A A, B \in {r.RefreshToken : r \in sessions},
                   x, y \in IssuableTokens(now) :
                  A # B =>
                    UpdateTokenByRefreshToken(
                        UpdateTokenByRefreshToken(sessions, x, A), y, B)
                    = UpdateTokenByRefreshToken(
                        UpdateTokenByRefreshToken(sessions, y, B), x, A) ]_vars

\* C19: a logout that passed the gate and answered success has ended the
\* session: right after it the row the gate authenticated the request
\* against is gone, also when a RefreshToken of that session ran between
\* the gate and the delete.
C19_LogoutEndsSession ==
    [][ \A w \in Workers :
          (HandlerStep(w, "logout_handler") /\ response'.status = 200)
          => \A r \in sessions' : r.ID # ctx[w].sessionID ]_vars

\* C20: a refresh token is never an access credential: in every reachable
\* state no row's Token equals any row's RefreshToken, so neither
\* ValidateToken nor the gate accepts a refresh token.
C20_RefreshTokenNeverAccess ==
    /\ \A r1, r2 \in sessions : r1.Token # r2.RefreshToken
    /\ \A r \in sessions :
          /\ ValidateTokenErr(sessions, r.RefreshToken) # "none"
          /\ ValidateAuthErr(sessions, r.RefreshToken, now) # "none"

====
